---- MODULE Spec2Model ----
(***************************************************************************)
(* Model of engine/engine.go: the package-level simulation state, the      *)
(* lazily set mesh, the field-assembly pipeline built by initialize() and  *)
(* the torque right-hand side handed to the solver.                        *)
(*                                                                         *)
(* A buffer (dst, torquebuffer) is modelled symbolically as the sequence   *)
(* of kernel applications made to it since it was last overwritten: the    *)
(* empty sequence is the all-zero field, and each element names the kernel *)
(* and the argument values it was called with.  log.Fatal ends the         *)
(* process: it is the variable fatal, and nothing runs once it is set.     *)
(***************************************************************************)
EXTENDS Integers, Sequences, FiniteSets, TLC

\* ---------------------------------------------------------------- bounds
MaxTick == 2
NRegions == 2
MaxExt == 2
DtInit == 2
MaxTime == 2

\* ------------------------------------------------- values the inputs take
MsatValues == {0, 1, 2}
DMIValues == {0, 1}
JValues == {<<0, 0, 0>>, <<1, 0, 0>>, <<0, 1, 0>>, <<0, 0, 1>>, <<1, -1, 0>>}
Ku1Values == {0, 1, 2}
BextValues == {<<0, 0, 0>>, <<1, 2, 3>>}
GridTriples == {<<1, 1, 1>>, <<2, 1, 1>>, <<2, 3, 4>>, <<3, 2, 1>>}
CellTriples == {<<1, 1, 1>>, <<1, 2, 3>>, <<3, 1, 2>>}
MaskValues == {1, 2}
MulValues == {1}
UserMask == 0
PipelineGrid == {<<2, 1, 1>>}
PipelineCell == {<<1, 1, 1>>}
Regions == 0 .. (NRegions - 1)

\* ------------------------------------------------------- program constants
Aex == 0
Alpha == 0
Xi == 0
SpinPol == 1
X == 0
Y == 1
Z == 2

VARIABLES
  Msat,          \* saturation magnetization (current value of Msat())
  DMI,           \* Dzyaloshinskii-Moriya coefficient
  J,             \* current density, user order [x, y, z]
  B_ext,         \* uniform applied field, user order [x, y, z]
  EnableDemag,
  Ku1,           \* region -> anisotropy strength
  ku1_red,       \* region -> <<num, den>>, the stored quotient Ku1/Msat
  extFields,     \* sequence of [mask, mul]
  M,             \* magnetization buffer (an identifier of its contents)
  Time,
  itime,
  globalmesh,    \* [size, cell] in storage order [Z, Y, X]
  gridsize,      \* <<>> is nil
  cellsize,      \* <<>> is nil
  torquebuffer,
  Quants,        \* the names registered in the map
  Table,         \* [armed, rows]
  Solver,        \* number of solvers created by initialize
  regions,       \* region table (an identifier of its contents)
  usermask,      \* contents of the mask buffer the caller of AddExtField owns
  gpu,           \* contents of the buffers made by cuda.GPUCopy, by number
  dt,            \* the solver's step size, in halvings above the floor
  rejects,       \* steps the solver has undone since the last accepted one
  fatal,         \* "" or the message of the log.Fatal that ended the process
  last           \* the last operation: its name, inputs, events and result

vars == <<Msat, DMI, J, B_ext, EnableDemag, Ku1, ku1_red, extFields, M, Time,
          itime, globalmesh, gridsize, cellsize, torquebuffer, Quants, Table,
          Solver, regions, usermask, gpu, dt, rejects, fatal, last>>

params == <<Msat, DMI, J, B_ext, EnableDemag, Ku1, ku1_red, extFields, M, Time>>
meshvars == <<globalmesh, gridsize, cellsize, Quants, Solver>>
hostvars == <<usermask, gpu>>
stepvars == <<dt, rejects>>

MsgMsat == "Msat should be nonzero"
MsgMesh == "need to set mesh first"
MsgMeshX == "mesh size X should be > 1"
MsgStep == "step size reached the minimum without meeting the tolerance"

Zero3 == <<0, 0, 0>>
ZeroField == <<>>
NoOp == [op |-> "none"]
B2N(b) == IF b THEN 1 ELSE 0

\* ------------------------------------------------------------ arithmetic
RECURSIVE Gcd(_, _)
Gcd(a, b) == IF b = 0 THEN a ELSE Gcd(b, a % b)

\* n/d in float64 for n, d >= 0, as a reduced fraction <<num, den>>:
\* x/0 is +Inf (<<1, 0>>) for x > 0 and 0/0 is NaN (<<0, 0>>).
Div(n, d) ==
  IF d = 0 THEN <<B2N(n # 0), 0>>
  ELSE <<n \div Gcd(n, d), d \div Gcd(n, d)>>

\* ------------------------------------------------------ the call context
\* c = [dst, ev, fatal]: the destination buffer, the events of the call so
\* far, and the fatal message once log.Fatal has been reached.
Ev(k, a) == [k |-> k, a |-> a]
Ctx(dst, ev) == [dst |-> dst, ev |-> ev, fatal |-> ""]
Log(c, k, a) == [c EXCEPT !.ev = Append(@, Ev(k, a))]
Halt(c, msg) == [c EXCEPT !.fatal = msg]

\* a kernel that accumulates into dst
KernelAdd(c, k, a) ==
  IF c.fatal # "" THEN c
  ELSE [c EXCEPT !.ev = Append(@, Ev(k, a)), !.dst = Append(@, Ev(k, a))]

\* a kernel that rewrites dst in place from its own contents
KernelTransform(c, k, a) ==
  IF c.fatal # "" THEN c
  ELSE [c EXCEPT !.ev = Append(@, Ev(k, a)), !.dst = Append(@, Ev(k, a))]

\* a kernel that overwrites dst
KernelSet(c, k, a) ==
  IF c.fatal # "" THEN c
  ELSE [c EXCEPT !.ev = Append(@, Ev(k, a)), !.dst = <<Ev(k, a)>>]

\* cuda.Zero(b)
KernelZero(c) ==
  IF c.fatal # "" THEN c
  ELSE [c EXCEPT !.ev = Append(@, Ev("cuda.Zero", <<>>)), !.dst = ZeroField]

sanitycheck(c) ==
  IF c.fatal # "" THEN c
  ELSE IF Msat = 0 THEN Halt(Log(c, "sanitycheck", <<>>), MsgMsat)
  ELSE Log(c, "sanitycheck", <<>>)

Ku1RedArgs ==
  [i \in 1 .. (2 * NRegions) |-> ku1_red[(i - 1) \div 2][((i - 1) % 2) + 1]]

\* the contents of the buffer a *data.Slice points at: the caller's mask
\* buffer or one of the copies
SliceAt(p) == IF p = UserMask THEN usermask ELSE gpu[p]

\* the multiplier of a registered field, evaluated at the current time
MulValue(f) == f.mul + Time

\* ------------------------------------------------ the compute closures
\* B_demag computed only on the ticks that save
B_demag_set_OnlyWhenSaving(c, cansave) ==
  IF c.fatal # "" THEN c
  ELSE LET c1 == Log(c, "B_demag.set", <<B2N(cansave)>>)
       IN IF EnableDemag /\ cansave
          THEN KernelSet(sanitycheck(c1), "demag_.Exec", <<M, Msat>>)
          ELSE KernelZero(c1)

\* B_demag checking Msat before it looks at EnableDemag
B_demag_set_CheckFirst(c, cansave) ==
  IF c.fatal # "" THEN c
  ELSE LET c1 == sanitycheck(Log(c, "B_demag.set", <<B2N(cansave)>>))
       IN IF EnableDemag
          THEN KernelSet(c1, "demag_.Exec", <<M, Msat>>)
          ELSE KernelZero(c1)

B_demag_set(c, cansave) ==
  IF c.fatal # "" THEN c
  ELSE LET c1 == Log(c, "B_demag.set", <<B2N(cansave)>>)
       IN IF EnableDemag
          THEN KernelSet(sanitycheck(c1), "demag_.Exec", <<M, Msat>>)
          ELSE KernelZero(c1)

\* B_exch without its sanity check
B_exch_addTo_Unchecked(c, cansave) ==
  IF c.fatal # "" THEN c
  ELSE KernelAdd(Log(c, "B_exch.addTo", <<B2N(cansave)>>),
                 "cuda.AddExchange", <<M, Aex, Msat>>)

B_exch_addTo(c, cansave) ==
  IF c.fatal # "" THEN c
  ELSE KernelAdd(sanitycheck(Log(c, "B_exch.addTo", <<B2N(cansave)>>)),
                 "cuda.AddExchange", <<M, Aex, Msat>>)

B_dmi_addTo(c, cansave) ==
  IF c.fatal # "" THEN c
  ELSE LET c1 == Log(c, "B_dmi.addTo", <<B2N(cansave)>>)
       IN IF DMI # 0
          THEN KernelAdd(c1, "cuda.AddDMI", <<M, DMI, Msat>>)
          ELSE c1

B_uni_addTo(c, cansave) ==
  IF c.fatal # "" THEN c
  ELSE KernelAdd(Log(c, "B_uni.addTo", <<B2N(cansave)>>),
                 "cuda.AddUniaxialAnisotropy", <<M>> \o Ku1RedArgs)

RECURSIVE AddMasks(_, _)
AddMasks(c, i) ==
  IF i > Len(extFields) THEN c
  ELSE AddMasks(KernelAdd(c, "cuda.Madd2",
                          <<SliceAt(extFields[i].mask),
                            MulValue(extFields[i])>>),
                i + 1)

b_ext_addTo(c, cansave) ==
  IF c.fatal # "" THEN c
  ELSE AddMasks(KernelAdd(Log(c, "b_ext.addTo", <<B2N(cansave)>>),
                          "cuda.AddConst",
                          <<B_ext[Z + 1], B_ext[Y + 1], B_ext[X + 1]>>),
                1)

\* B_eff adding the DMI field before the exchange field
B_eff_set_Reordered(c, cansave) ==
  IF c.fatal # "" THEN c
  ELSE LET c0 == Log(c, "B_eff.set", <<B2N(cansave)>>)
           c1 == B_demag_set(c0, cansave)
           c2 == B_dmi_addTo(c1, cansave)
           c3 == B_exch_addTo(c2, cansave)
           c4 == B_uni_addTo(c3, cansave)
       IN b_ext_addTo(c4, cansave)

B_eff_set(c, cansave) ==
  IF c.fatal # "" THEN c
  ELSE LET c0 == Log(c, "B_eff.set", <<B2N(cansave)>>)
           c1 == B_demag_set(c0, cansave)
           c2 == B_exch_addTo(c1, cansave)
           c3 == B_dmi_addTo(c2, cansave)
           c4 == B_uni_addTo(c3, cansave)
       IN b_ext_addTo(c4, cansave)

LLTorque_set(c, cansave) ==
  IF c.fatal # "" THEN c
  ELSE KernelTransform(B_eff_set(Log(c, "lltorque.set", <<B2N(cansave)>>),
                                 cansave),
                       "cuda.LLTorque", <<M, Alpha>>)

\* STTorque skipped on the first component of J alone
STTorque_addTo_FirstComponent(c, cansave) ==
  IF c.fatal # "" THEN c
  ELSE LET c1 == Log(c, "sttorque.addTo", <<B2N(cansave)>>)
       IN IF J[1] # 0
          THEN KernelAdd(c1, "cuda.AddZhangLiTorque",
                         <<M, J[Z + 1] * SpinPol, J[Y + 1] * SpinPol,
                           J[X + 1] * SpinPol, Msat, Alpha, Xi>>)
          ELSE c1

STTorque_addTo(c, cansave) ==
  IF c.fatal # "" THEN c
  ELSE LET c1 == Log(c, "sttorque.addTo", <<B2N(cansave)>>)
       IN IF J # <<0, 0, 0>>
          THEN KernelAdd(c1, "cuda.AddZhangLiTorque",
                         <<M, J[Z + 1] * SpinPol, J[Y + 1] * SpinPol,
                           J[X + 1] * SpinPol, Msat, Alpha, Xi>>)
          ELSE c1

\* Torque adding the spin-transfer torque before the transform
Torque_set_TransformLast(c, cansave) ==
  IF c.fatal # "" THEN c
  ELSE KernelTransform(
         STTorque_addTo(
           B_eff_set(Log(Log(c, "torque.set", <<B2N(cansave)>>),
                         "lltorque.set", <<B2N(cansave)>>),
                     cansave),
           cansave),
         "cuda.LLTorque", <<M, Alpha>>)

\* Torque computing the effective field once more on its own
Torque_set_Recomputing(c, cansave) ==
  IF c.fatal # "" THEN c
  ELSE STTorque_addTo(
         LLTorque_set(B_eff_set(Log(c, "torque.set", <<B2N(cansave)>>),
                                cansave),
                      cansave),
         cansave)

Torque_set(c, cansave) ==
  IF c.fatal # "" THEN c
  ELSE STTorque_addTo(LLTorque_set(Log(c, "torque.set", <<B2N(cansave)>>),
                                   cansave),
                      cansave)

\* ------------------------------------------------------------ the mesh
\* data.NewMesh(n0, n1, n2, c0, c1, c2) and the data.Mesh methods
NewMesh(n0, n1, n2, c0, c1, c2) ==
  [size |-> <<n0, n1, n2>>, cell |-> <<c0, c1, c2>>]
MeshSize(m) == m.size
MeshCellSize(m) == m.cell
MeshWorldSize(m) == [i \in 1 .. 3 |-> m.size[i] * m.cell[i]]

\* checkMesh left out
checkMesh_Skipped == TRUE

\* checkMesh passes
checkMesh == MeshSize(globalmesh) # Zero3

CellSize ==
  LET c == MeshCellSize(globalmesh) IN <<c[Z + 1], c[Y + 1], c[X + 1]>>
WorldSize ==
  LET w == MeshWorldSize(globalmesh) IN <<w[Z + 1], w[Y + 1], w[X + 1]>>
\* GridSize without the swap
GridSize_Unswapped ==
  LET n == MeshSize(globalmesh) IN <<n[X + 1], n[Y + 1], n[Z + 1]>>

GridSize ==
  LET n == MeshSize(globalmesh) IN <<n[Z + 1], n[Y + 1], n[X + 1]>>
Nx == GridSize[X + 1]
Ny == GridSize[Y + 1]
Nz == GridSize[Z + 1]

Accessors == {"Mesh", "CellSize", "WorldSize", "GridSize", "Nx", "Ny", "Nz"}

AccessorValue(name) ==
  CASE name = "Mesh" -> MeshSize(globalmesh) \o MeshCellSize(globalmesh)
    [] name = "CellSize" -> CellSize
    [] name = "WorldSize" -> WorldSize
    [] name = "GridSize" -> GridSize
    [] name = "Nx" -> <<Nx>>
    [] name = "Ny" -> <<Ny>>
    [] name = "Nz" -> <<Nz>>

\* a mesh-dependent accessor called by a user of the package
Accessor(name) ==
  /\ fatal = ""
  /\ IF checkMesh
     THEN /\ fatal' = ""
          /\ last' = [op |-> name, ok |-> TRUE, ret |-> AccessorValue(name)]
     ELSE /\ fatal' = MsgMesh
          /\ last' = [op |-> name, ok |-> FALSE, ret |-> <<>>]
  /\ UNCHANGED <<hostvars, regions, stepvars, params, meshvars, itime,
                 torquebuffer, Table>>

\* the registry with the external field registered as well
QuantNames_WithB_ext ==
  {"m", "regions", "mFFT", "B_demag", "B_exch", "exchangemask", "B_dmi",
   "B_uni", "B_ext", "B_eff", "lltorque", "sttorque", "torque"}

QuantNames ==
  {"m", "regions", "mFFT", "B_demag", "B_exch", "exchangemask", "B_dmi",
   "B_uni", "B_eff", "lltorque", "sttorque", "torque"}

newTable == [armed |-> FALSE, rows |-> 0]

\* initialize(): the buffers, parameters, quantities, table and solver
initialize ==
  /\ torquebuffer' = ZeroField
  /\ M' = 0
  /\ Quants' = QuantNames
  /\ Table' = newTable
  /\ Ku1' = [r \in Regions |-> 0]
  /\ ku1_red' = [r \in Regions |-> <<0, 1>>]
  /\ regions' = 0
  /\ Solver' = 1
  /\ dt' = DtInit
  /\ rejects' = 0

\* SetMesh testing Nx only after it has stored the mesh and initialized
DoSetMesh_CheckLate(nx, ny, nz, cx, cy, cz) ==
  /\ fatal' = IF nx <= 1 THEN MsgMeshX ELSE ""
  /\ globalmesh' = NewMesh(nz, ny, nx, cz, cy, cx)
  /\ initialize

\* the body of SetMesh; the caller says what the call is recorded as
DoSetMesh(nx, ny, nz, cx, cy, cz) ==
  IF nx <= 1
  THEN /\ fatal' = MsgMeshX
       /\ UNCHANGED <<globalmesh, torquebuffer, M, Quants, Table, Ku1, ku1_red,
                      Solver, regions, stepvars>>
  ELSE /\ fatal' = ""
       /\ globalmesh' = NewMesh(nz, ny, nx, cz, cy, cx)
       /\ initialize

SetMesh(g, c) ==
  /\ fatal = ""
  /\ DoSetMesh(g[1], g[2], g[3], c[1], c[2], c[3])
  /\ last' = [op |-> "SetMesh", grid |-> g, cell |-> c, calls |-> 1]
  /\ UNCHANGED <<hostvars, Msat, DMI, J, B_ext, EnableDemag, extFields, Time,
                 itime, gridsize, cellsize>>

\* for lazy setmesh: set gridsize and cellsize in separate calls
setGridSize(g) ==
  /\ fatal = ""
  /\ gridsize' = g
  /\ IF cellsize # <<>>
     THEN /\ DoSetMesh(g[1], g[2], g[3], cellsize[1], cellsize[2], cellsize[3])
          /\ last' = [op |-> "setGridSize", grid |-> g, cell |-> cellsize,
                      calls |-> 1]
     ELSE /\ last' = [op |-> "setGridSize", grid |-> g, cell |-> <<>>,
                      calls |-> 0]
          /\ UNCHANGED <<globalmesh, torquebuffer, M, Quants, Table, Ku1,
                         ku1_red, Solver, regions, stepvars, fatal>>
  /\ UNCHANGED <<hostvars, Msat, DMI, J, B_ext, EnableDemag, extFields, Time,
                 itime, cellsize>>

\* setCellSize storing the cell size without ever setting the mesh
setCellSize_StoreOnly(c) ==
  /\ fatal = ""
  /\ cellsize' = c
  /\ last' = [op |-> "setCellSize", grid |-> gridsize, cell |-> c,
              calls |-> 0]
  /\ UNCHANGED <<hostvars, Msat, DMI, J, B_ext, EnableDemag, extFields, Time,
                 itime, gridsize, globalmesh, torquebuffer, M, Quants,
                 Table, Ku1, ku1_red, Solver, regions, stepvars, fatal>>

setCellSize(c) ==
  /\ fatal = ""
  /\ cellsize' = c
  /\ IF gridsize # <<>>
     THEN /\ DoSetMesh(gridsize[1], gridsize[2], gridsize[3], c[1], c[2], c[3])
          /\ last' = [op |-> "setCellSize", grid |-> gridsize, cell |-> c,
                      calls |-> 1]
     ELSE /\ last' = [op |-> "setCellSize", grid |-> <<>>, cell |-> c,
                      calls |-> 0]
          /\ UNCHANGED <<globalmesh, torquebuffer, M, Quants, Table, Ku1,
                         ku1_red, Solver, regions, stepvars, fatal>>
  /\ UNCHANGED <<hostvars, Msat, DMI, J, B_ext, EnableDemag, extFields, Time,
                 itime, gridsize>>

\* ---------------------------------------------------- the sampling table
TableArm(t, cansave) == [t EXCEPT !.armed = cansave]
TableTouch(t, cansave) == IF cansave THEN [t EXCEPT !.rows = @ + 1] ELSE t

\* ------------------------------------------------- the solver's torqueFn
\* the events of torqueFn up to the call of Torque.set
TorqueFnHead(cansave) ==
  << Ev("itime++", <<>>),
     Ev("Table.arm", <<B2N(cansave)>>),
     Ev("notifySave(M)", <<B2N(cansave)>>),
     Ev("notifySave(FFTM)", <<B2N(cansave)>>),
     Ev("notifySave(ExchangeMask)", <<B2N(cansave)>>) >>

\* torqueFn sampling the table before Torque.set
TorqueFnRun_SampleFirst(cansave) ==
  Torque_set(Log(Ctx(torquebuffer, TorqueFnHead(cansave)),
                 "Table.touch", <<B2N(cansave)>>),
             cansave)

\* the context in which torqueFn returns, or in which the process ended
TorqueFnRun(cansave) ==
  LET c == Torque_set(Ctx(torquebuffer, TorqueFnHead(cansave)), cansave)
  IN IF c.fatal # "" THEN c ELSE Log(c, "Table.touch", <<B2N(cansave)>>)

\* torqueFn with Torque.set writing into the magnetization buffer
torqueFn_IntoM(cansave) ==
  /\ fatal = ""
  /\ Quants # {}
  /\ itime < MaxTick
  /\ LET c == TorqueFnRun(cansave)
     IN /\ itime' = itime + 1
        /\ M' = M + 1
        /\ Table' = IF c.fatal # "" THEN TableArm(Table, cansave)
                    ELSE TableTouch(TableArm(Table, cansave), cansave)
        /\ fatal' = c.fatal
        /\ last' = [op |-> "torqueFn", cansave |-> cansave, ev |-> c.ev,
                    dst |-> c.dst]
  /\ UNCHANGED <<hostvars, regions, stepvars, Msat, DMI, J, B_ext,
                 EnableDemag, Ku1, ku1_red, extFields, Time, meshvars,
                 torquebuffer>>

\* torqueFn counting only the ticks that save
torqueFn_TickOnSave(cansave) ==
  /\ fatal = ""
  /\ Quants # {}
  /\ itime < MaxTick
  /\ LET c == TorqueFnRun(cansave)
     IN /\ itime' = itime + B2N(cansave)
        /\ torquebuffer' = c.dst
        /\ Table' = IF c.fatal # "" THEN TableArm(Table, cansave)
                    ELSE TableTouch(TableArm(Table, cansave), cansave)
        /\ fatal' = c.fatal
        /\ last' = [op |-> "torqueFn", cansave |-> cansave, ev |-> c.ev,
                    dst |-> c.dst]
  /\ UNCHANGED <<hostvars, regions, stepvars, params, meshvars>>

torqueFn(cansave) ==
  /\ fatal = ""
  /\ Quants # {}
  /\ itime < MaxTick
  /\ LET c == TorqueFnRun(cansave)
     IN /\ itime' = itime + 1
        /\ torquebuffer' = c.dst
        /\ Table' = IF c.fatal # "" THEN TableArm(Table, cansave)
                    ELSE TableTouch(TableArm(Table, cansave), cansave)
        /\ fatal' = c.fatal
        /\ last' = [op |-> "torqueFn", cansave |-> cansave, ev |-> c.ev,
                    dst |-> c.dst]
  /\ UNCHANGED <<hostvars, regions, stepvars, params, meshvars>>

\* ------------------------------------------------- the solver (cuda.Heun)
\* the floor of the step size, and the time a step of size dt covers
MinDt == 0
StepSize(d) == d + 1

\* a step attempt that undoes the step without shrinking the step size
Step_NoShrink(cansave, exceeds) ==
  /\ fatal = ""
  /\ Solver # 0
  /\ Time < MaxTime
  /\ Msat # 0
  /\ exceeds
  /\ itime' = itime + 2
  /\ torquebuffer' = TorqueFnRun(cansave).dst
  /\ Table' = TableTouch(TableArm(TableTouch(TableArm(Table, cansave),
                                             cansave), cansave), cansave)
  /\ rejects' = rejects + 1
  /\ last' = [op |-> "Step", outcome |-> "rejected", cansave |-> cansave]
  /\ UNCHANGED <<hostvars, regions, Msat, DMI, J, B_ext, EnableDemag, Ku1,
                 ku1_red, extFields, M, Time, dt, meshvars, fatal>>

\* One step attempt of the two-stage adaptive solver: the torque at the
\* current state, the torque at the trial state, then the step is accepted
\* (the magnetization is updated and renormalized, the time advances by the
\* step size), or undone and the step size shrunk, or, at the floor of the
\* step size, the process ends.  exceeds: the error estimate is above the
\* tolerance.  Both evaluations are handed the buffer M and overwrite
\* torquebuffer.
Step(cansave, exceeds) ==
  /\ fatal = ""
  /\ Solver # 0
  /\ Time < MaxTime
  /\ LET c1 == TorqueFnRun(cansave)
         t1 == TableTouch(TableArm(Table, cansave), cansave)
         c2 == TorqueFnRun(cansave)
     IN IF c1.fatal # ""
        THEN /\ itime' = itime + 1
             /\ torquebuffer' = c1.dst
             /\ Table' = TableArm(Table, cansave)
             /\ fatal' = c1.fatal
             /\ last' = [op |-> "Step", outcome |-> "fatal",
                         cansave |-> cansave]
             /\ UNCHANGED <<M, Time, dt, rejects>>
        ELSE /\ itime' = itime + 2
             /\ torquebuffer' = c2.dst
             /\ Table' = TableTouch(TableArm(t1, cansave), cansave)
             /\ IF ~exceeds
                THEN /\ M' = M + 1
                     /\ Time' = Time + StepSize(dt)
                     /\ rejects' = 0
                     /\ last' = [op |-> "Step", outcome |-> "accepted",
                                 cansave |-> cansave]
                     /\ UNCHANGED <<dt, fatal>>
                ELSE IF dt = MinDt
                THEN /\ fatal' = MsgStep
                     /\ last' = [op |-> "Step", outcome |-> "fatal",
                                 cansave |-> cansave]
                     /\ UNCHANGED <<M, Time, dt, rejects>>
                ELSE /\ dt' = dt - 1
                     /\ rejects' = rejects + 1
                     /\ last' = [op |-> "Step", outcome |-> "rejected",
                                 cansave |-> cansave]
                     /\ UNCHANGED <<M, Time, fatal>>
  /\ UNCHANGED <<hostvars, regions, Msat, DMI, J, B_ext, EnableDemag, Ku1,
                 ku1_red, extFields, meshvars>>

\* ------------------------------- quantities fetched through their handles
Setters == {"B_demag", "B_eff", "lltorque", "torque"}
Adders == {"B_exch", "B_dmi", "B_uni", "sttorque"}
PriorContents == {ZeroField, <<Ev("prior", <<>>)>>}

SetterRun(q, c, cansave) ==
  CASE q = "B_demag" -> B_demag_set(c, cansave)
    [] q = "B_eff" -> B_eff_set(c, cansave)
    [] q = "lltorque" -> LLTorque_set(c, cansave)
    [] q = "torque" -> Torque_set(c, cansave)

AdderRun(q, c, cansave) ==
  CASE q = "B_exch" -> B_exch_addTo(c, cansave)
    [] q = "B_dmi" -> B_dmi_addTo(c, cansave)
    [] q = "B_uni" -> B_uni_addTo(c, cansave)
    [] q = "sttorque" -> STTorque_addTo(c, cansave)

CallSet(q, cansave, d0) ==
  /\ fatal = ""
  /\ q \in Quants
  /\ LET c == SetterRun(q, Ctx(d0, <<>>), cansave)
     IN /\ fatal' = c.fatal
        /\ last' = [op |-> q, cansave |-> cansave, dst0 |-> d0, ev |-> c.ev,
                    dst |-> c.dst]
  /\ UNCHANGED <<hostvars, regions, stepvars, params, meshvars, itime,
                 torquebuffer, Table>>

CallAddTo(q, cansave, d0) ==
  /\ fatal = ""
  /\ q \in Quants
  /\ LET c == AdderRun(q, Ctx(d0, <<>>), cansave)
     IN /\ fatal' = c.fatal
        /\ last' = [op |-> q, cansave |-> cansave, dst0 |-> d0, ev |-> c.ev,
                    dst |-> c.dst]
  /\ UNCHANGED <<hostvars, regions, stepvars, params, meshvars, itime,
                 torquebuffer, Table>>

\* ------------------------------------------------------- the user inputs
SetMsat(v) ==
  /\ fatal = ""
  /\ v # Msat
  /\ Msat' = v
  /\ last' = NoOp
  /\ UNCHANGED <<hostvars, regions, stepvars, DMI, J, B_ext, EnableDemag, Ku1,
                 ku1_red, extFields, M, Time, meshvars, itime, torquebuffer,
                 Table, fatal>>

SetDMI(v) ==
  /\ fatal = ""
  /\ v # DMI
  /\ DMI' = v
  /\ last' = NoOp
  /\ UNCHANGED <<hostvars, regions, stepvars, Msat, J, B_ext, EnableDemag, Ku1,
                 ku1_red, extFields, M, Time, meshvars, itime, torquebuffer,
                 Table, fatal>>

SetJ(v) ==
  /\ fatal = ""
  /\ v # J
  /\ J' = v
  /\ last' = NoOp
  /\ UNCHANGED <<hostvars, regions, stepvars, Msat, DMI, B_ext, EnableDemag,
                 Ku1, ku1_red, extFields, M, Time, meshvars, itime,
                 torquebuffer, Table, fatal>>

SetB_ext(v) ==
  /\ fatal = ""
  /\ v # B_ext
  /\ B_ext' = v
  /\ last' = NoOp
  /\ UNCHANGED <<hostvars, regions, stepvars, Msat, DMI, J, EnableDemag, Ku1,
                 ku1_red, extFields, M, Time, meshvars, itime, torquebuffer,
                 Table, fatal>>

SetEnableDemag(v) ==
  /\ fatal = ""
  /\ v # EnableDemag
  /\ EnableDemag' = v
  /\ last' = NoOp
  /\ UNCHANGED <<hostvars, regions, stepvars, Msat, DMI, J, B_ext, Ku1,
                 ku1_red, extFields, M, Time, meshvars, itime, torquebuffer,
                 Table, fatal>>

\* Ku1.post_update(region)
Ku1_post_update(k, region) ==
  [ku1_red EXCEPT ![region] = Div(k[region], Msat)]

\* a write to one region of Ku1, which runs the hook
SetKu1(region, v) ==
  /\ fatal = ""
  /\ Quants # {}
  /\ Ku1' = [Ku1 EXCEPT ![region] = v]
  /\ ku1_red' = Ku1_post_update(Ku1', region)
  /\ last' = [op |-> "Ku1.SetRegion", region |-> region, msat |-> Msat]
  /\ UNCHANGED <<hostvars, regions, stepvars, Msat, DMI, J, B_ext, EnableDemag,
                 extFields, M, Time, meshvars, itime, torquebuffer, Table,
                 fatal>>

\* AddExtField keeping the caller's buffer instead of a copy of it
AddExtField_NoCopy(mask, multiplier) ==
  /\ fatal = ""
  /\ Len(extFields) < MaxExt
  /\ gpu' = Append(gpu, SliceAt(mask))
  /\ extFields' = Append(extFields, [mask |-> mask, mul |-> multiplier])
  /\ last' = NoOp
  /\ UNCHANGED <<usermask, regions, stepvars, Msat, DMI, J, B_ext, EnableDemag,
                 Ku1, ku1_red, M, Time, meshvars, itime, torquebuffer, Table,
                 fatal>>

\* mask points at the caller's buffer; m := cuda.GPUCopy(mask) is a new buffer
AddExtField(mask, multiplier) ==
  /\ fatal = ""
  /\ Len(extFields) < MaxExt
  /\ gpu' = Append(gpu, SliceAt(mask))
  /\ extFields' = Append(extFields, [mask |-> Len(gpu) + 1, mul |-> multiplier])
  /\ last' = NoOp
  /\ UNCHANGED <<usermask, regions, stepvars, Msat, DMI, J, B_ext, EnableDemag,
                 Ku1, ku1_red, M, Time, meshvars, itime, torquebuffer, Table,
                 fatal>>

\* the caller goes on writing to the mask buffer it owns
WriteMask(v) ==
  /\ fatal = ""
  /\ v # usermask
  /\ usermask' = v
  /\ last' = NoOp
  /\ UNCHANGED <<gpu, regions, stepvars, params, meshvars, itime, torquebuffer,
                 Table, fatal>>

\* ------------------------------------------------------ specifications
Init ==
  /\ Msat = 0
  /\ DMI = 0
  /\ J = <<0, 0, 0>>
  /\ B_ext = <<0, 0, 0>>
  /\ EnableDemag = TRUE
  /\ Ku1 = [r \in Regions |-> 0]
  /\ ku1_red = [r \in Regions |-> <<0, 1>>]
  /\ extFields = <<>>
  /\ M = 0
  /\ Time = 0
  /\ itime = 0
  /\ globalmesh = NewMesh(0, 0, 0, 0, 0, 0)
  /\ gridsize = <<>>
  /\ cellsize = <<>>
  /\ torquebuffer = ZeroField
  /\ Quants = {}
  /\ Table = newTable
  /\ Solver = 0
  /\ regions = 0
  /\ usermask = 1
  /\ gpu = <<>>
  /\ dt = DtInit
  /\ rejects = 0
  /\ fatal = ""
  /\ last = NoOp

\* The inputs each specification draws.
DoSetMeshOne == \E g \in PipelineGrid, c \in PipelineCell : SetMesh(g, c)
\* SetMesh used as its comment says: once, at the beginning
DoSetMeshFirst == ~checkMesh /\ DoSetMeshOne
DoSetMeshAny == \E g \in GridTriples, c \in CellTriples : SetMesh(g, c)
DoSetGridSize == \E g \in GridTriples : setGridSize(g)
DoSetCellSize == \E c \in CellTriples : setCellSize(c)
DoAccessor == \E name \in Accessors : Accessor(name)
DoTorqueFn == \E cansave \in BOOLEAN : torqueFn(cansave)
DoCallSet ==
  \E q \in Setters, cansave \in BOOLEAN, d0 \in PriorContents :
    CallSet(q, cansave, d0)
DoCallAddTo ==
  \E q \in Adders, cansave \in BOOLEAN, d0 \in PriorContents :
    CallAddTo(q, cansave, d0)
DoCallB_uni ==
  \E cansave \in BOOLEAN, d0 \in PriorContents : CallAddTo("B_uni", cansave, d0)
DoSetMsat == \E v \in MsatValues : SetMsat(v)
DoSetDMI == \E v \in DMIValues : SetDMI(v)
DoSetJ == \E v \in JValues : SetJ(v)
DoSetB_ext == \E v \in BextValues : SetB_ext(v)
DoSetEnableDemag == \E v \in BOOLEAN : SetEnableDemag(v)
DoAddExtField == \E mul \in MulValues : AddExtField(UserMask, mul)
DoWriteMask == \E v \in MaskValues : WriteMask(v)
DoStep == \E cansave \in BOOLEAN, exceeds \in BOOLEAN : Step(cansave, exceeds)
DoSetKu1 == \E r \in Regions, v \in Ku1Values : SetKu1(r, v)

\* The solver loop: the torque right-hand side under changing inputs.
Next ==
  \/ DoSetMeshOne
  \/ DoTorqueFn
  \/ DoSetMsat
  \/ DoSetDMI
  \/ DoSetJ
  \/ DoSetEnableDemag

Spec == Init /\ [][Next]_vars

\* The quantities fetched through their handles, each on its own.
HandleNext ==
  \/ DoSetMeshOne
  \/ DoCallSet
  \/ DoCallAddTo
  \/ DoSetMsat
  \/ DoSetDMI
  \/ DoSetJ
  \/ DoSetB_ext
  \/ DoSetEnableDemag
  \/ DoAddExtField

HandleSpec == Init /\ [][HandleNext]_vars

\* Saturation magnetization and the switch of the demagnetizing field,
\* under setter calls and torque evaluations.
MsatNext ==
  \/ DoSetMeshOne
  \/ DoCallSet
  \/ DoTorqueFn
  \/ DoSetMsat
  \/ DoSetEnableDemag

MsatSpec == Init /\ [][MsatNext]_vars

\* The anisotropy parameter and the parameter derived from it.
AnisNext ==
  \/ DoSetMeshOne
  \/ DoSetMsat
  \/ DoSetKu1
  \/ DoCallB_uni

AnisSpec == Init /\ [][AnisNext]_vars

\* Setting the mesh, directly and lazily, and reading it back.
MeshNext ==
  \/ DoSetMeshAny
  \/ DoSetGridSize
  \/ DoSetCellSize
  \/ DoAccessor

MeshSpec == Init /\ [][MeshNext]_vars

\* Registered external fields under torque evaluations.
ExtNext ==
  \/ DoSetMeshOne
  \/ DoTorqueFn
  \/ DoAddExtField
  \/ DoWriteMask
  \/ DoSetMsat
  \/ DoSetB_ext

ExtSpec == Init /\ [][ExtNext]_vars

\* The mesh set only through setGridSize and setCellSize.
LazyNext ==
  \/ DoSetGridSize
  \/ DoSetCellSize
  \/ DoAccessor

LazySpec == Init /\ [][LazyNext]_vars

\* The solver stepping: an attempt that was undone is retried.
StepNext ==
  \/ DoSetMeshFirst
  \/ DoSetMsat
  \/ DoStep

StepSpec == Init /\ [][StepNext]_vars /\ WF_vars(DoStep)

\* ------------------------------------------------------------------------
\* Properties
\* ------------------------------------------------------------------------
Kinds(s) == [i \in 1 .. Len(s) |-> s[i].k]
Count(s, k) == Cardinality({i \in 1 .. Len(s) : s[i].k = k})
HasEv == last.op \in Setters \cup Adders \cup {"torqueFn"}
IsPrefix(s, t) == Len(s) <= Len(t) /\ s = SubSeq(t, 1, Len(s))

StepKinds ==
  {"itime++", "Table.arm", "notifySave(M)", "notifySave(FFTM)",
   "notifySave(ExchangeMask)", "torque.set", "Table.touch"}
IsStep(e) == e.k \in StepKinds
StepOrder ==
  <<"itime++", "Table.arm", "notifySave(M)", "notifySave(FFTM)",
    "notifySave(ExchangeMask)", "torque.set", "Table.touch">>
Steps == Kinds(SelectSeq(last.ev, IsStep))

\* C1 as stated: every torque evaluation, whatever the inputs, performs all
\* of increment, arm, notify, Torque.set and sample, in this order and each
\* exactly once.
C1_EveryEvaluationSamples ==
  last.op = "torqueFn" => Steps = StepOrder

\* C1 amended: a torque evaluation that returns has performed increment,
\* arm, the three notifications, Torque.set and sample in this order, each
\* exactly once, with every event of the pipeline between arm and sample; an
\* evaluation that ends in the fatal Msat error has performed the steps up
\* to Torque.set in this order and has not sampled.
C1_StepOrder ==
  last.op = "torqueFn" =>
    IF fatal = ""
    THEN /\ Steps = StepOrder
         /\ Kinds(last.ev)[2] = "Table.arm"
         /\ Kinds(last.ev)[6] = "torque.set"
         /\ Kinds(last.ev)[Len(last.ev)] = "Table.touch"
    ELSE /\ fatal = MsgMsat
         /\ Msat = 0
         /\ Steps = SubSeq(StepOrder, 1, 6)
         /\ Kinds(last.ev)[6] = "torque.set"

C1_Witness ==
  /\ last.op = "torqueFn"
  /\ fatal = ""
  /\ last.cansave
  /\ itime = 2
  /\ Count(last.ev, "cuda.AddZhangLiTorque") = 1

MeshOps == {"SetMesh", "setGridSize", "setCellSize"}

\* C2: once the mesh is set, every later call of SetMesh (made directly or by
\* setGridSize/setCellSize) ends in a fatal error and leaves the mesh and
\* what initialize built from it unchanged.
C2_MeshSetOnce ==
  [][(checkMesh /\ last'.op \in MeshOps /\ last'.calls = 1) =>
       (fatal' # "" /\ globalmesh' = globalmesh /\ Table' = Table
        /\ torquebuffer' = torquebuffer)]_vars

\* C3: with Msat = 0, a call of B_eff.set, made directly or through
\* LLTorque.set, Torque.set or a torque evaluation, ends in the fatal Msat
\* error for either setting of EnableDemag, and neither the demagnetizing
\* nor the exchange kernel has been invoked in it.
C3_MsatZeroHalts ==
  (last.op \in {"B_eff", "lltorque", "torque", "torqueFn"} /\ Msat = 0) =>
    /\ fatal = MsgMsat
    /\ Count(last.ev, "B_eff.set") = 1
    /\ Count(last.ev, "demag_.Exec") = 0
    /\ Count(last.ev, "cuda.AddExchange") = 0

C3_Witness ==
  /\ last.op = "torqueFn"
  /\ Msat = 0
  /\ ~EnableDemag
  /\ fatal = MsgMsat
  /\ Count(last.ev, "B_exch.addTo") = 1

MsatKernels ==
  {"demag_.Exec", "cuda.AddExchange", "cuda.AddDMI", "cuda.AddZhangLiTorque"}

\* C4: no kernel that takes Msat runs while Msat is 0, on any entry point,
\* and no write to Ku1 divides by an Msat of 0.
C4_NoKernelAtMsatZero ==
  /\ (HasEv /\ Msat = 0) => \A k \in MsatKernels : Count(last.ev, k) = 0
  /\ last.op = "Ku1.SetRegion" => last.msat # 0

\* C5: STTorque.addTo with J = [0,0,0] and B_dmi.addTo with DMI = 0 leave dst
\* as it was and invoke no kernel; with a nonzero J (in any component) or a
\* nonzero DMI the kernel is invoked exactly once per addTo.
C5_ZeroSkip ==
  /\ last.op = "sttorque" =>
       IF J = <<0, 0, 0>>
       THEN last.dst = last.dst0 /\ Count(last.ev, "cuda.AddZhangLiTorque") = 0
       ELSE /\ Count(last.ev, "cuda.AddZhangLiTorque") = 1
            /\ last.dst = Append(last.dst0, last.ev[Len(last.ev)])
  /\ last.op = "B_dmi" =>
       IF DMI = 0
       THEN last.dst = last.dst0 /\ Count(last.ev, "cuda.AddDMI") = 0
       ELSE /\ Count(last.ev, "cuda.AddDMI") = 1
            /\ last.dst = Append(last.dst0, last.ev[Len(last.ev)])
  /\ HasEv =>
       /\ Count(last.ev, "cuda.AddZhangLiTorque") =
            (IF J = <<0, 0, 0>> THEN 0 ELSE Count(last.ev, "sttorque.addTo"))
       /\ Count(last.ev, "cuda.AddDMI") =
            (IF DMI = 0 THEN 0 ELSE Count(last.ev, "B_dmi.addTo"))

C5_Witness ==
  /\ last.op = "sttorque"
  /\ J = <<0, 0, 0>>
  /\ last.dst0 # ZeroField
  /\ last.dst = last.dst0

ContribKinds ==
  {"B_demag.set", "B_exch.addTo", "B_dmi.addTo", "B_uni.addTo", "b_ext.addTo"}
IsContrib(e) == e.k \in ContribKinds
ContribOrder ==
  <<"B_demag.set", "B_exch.addTo", "B_dmi.addTo", "B_uni.addTo", "b_ext.addTo">>

\* the kernels a completed B_eff.set has applied to dst, for the inputs as
\* they are now
BeffKernels ==
  (IF EnableDemag THEN <<"demag_.Exec">> ELSE <<>>)
  \o <<"cuda.AddExchange">>
  \o (IF DMI # 0 THEN <<"cuda.AddDMI">> ELSE <<>>)
  \o <<"cuda.AddUniaxialAnisotropy", "cuda.AddConst">>
  \o [i \in 1 .. Len(extFields) |-> "cuda.Madd2"]

\* C6: B_eff.set calls B_demag.set, B_exch.addTo, B_dmi.addTo, B_uni.addTo
\* and the external field's addTo in this order in every call (the calls
\* made are an initial part of this order, and all of it when the call
\* returns); what it leaves in dst is these contributions in this order on a
\* field B_demag.set has overwritten, whatever dst held before.
C6_BeffOrder ==
  last.op = "B_eff" =>
    /\ IsPrefix(Kinds(SelectSeq(last.ev, IsContrib)), ContribOrder)
    /\ fatal = "" =>
         /\ Kinds(SelectSeq(last.ev, IsContrib)) = ContribOrder
         /\ Kinds(last.dst) = BeffKernels
         /\ \A d0 \in PriorContents :
              B_eff_set(Ctx(d0, <<>>), last.cansave).dst = last.dst

C6_Witness ==
  /\ last.op = "B_eff"
  /\ fatal = ""
  /\ last.dst0 # ZeroField
  /\ DMI # 0
  /\ EnableDemag
  /\ Len(extFields) > 0

KernelKinds ==
  {"demag_.Exec", "cuda.Zero", "cuda.AddExchange", "cuda.AddDMI",
   "cuda.AddUniaxialAnisotropy", "cuda.AddConst", "cuda.Madd2",
   "cuda.LLTorque", "cuda.AddZhangLiTorque"}
IsKernel(e) == e.k \in KernelKinds
KernelCalls(ev) == SelectSeq(ev, IsKernel)

\* C7: a call of B_demag.set, B_eff.set, LLTorque.set or Torque.set and the
\* same call from the same state with the other value of cansave leave the
\* same contents in dst, invoke the same kernels with the same arguments in
\* the same order, and end the same way.
C7_CansaveNeutral ==
  last.op \in Setters =>
    LET twin == SetterRun(last.op, Ctx(last.dst0, <<>>), ~last.cansave)
    IN /\ twin.dst = last.dst
       /\ KernelCalls(twin.ev) = KernelCalls(last.ev)
       /\ twin.fatal = fatal

C7_Witness ==
  /\ last.op = "torque"
  /\ last.cansave
  /\ fatal = ""
  /\ EnableDemag
  /\ Len(KernelCalls(last.ev)) >= 6

\* C8: after a SetMesh(nx, ny, nz, dx, dy, dz) that succeeds (nx > 1), made
\* directly or by the lazy setters, GridSize() is [nx, ny, nz] and CellSize()
\* is [dx, dy, dz] while the mesh stores [nz, ny, nx] and [dz, dy, dx], and
\* WorldSize() is GridSize() times CellSize() in every component.
C8_UserAxisOrder ==
  (last.op \in MeshOps /\ last.calls = 1 /\ fatal = "") =>
    /\ last.grid[1] > 1
    /\ GridSize = last.grid
    /\ CellSize = last.cell
    /\ MeshSize(globalmesh) = <<last.grid[3], last.grid[2], last.grid[1]>>
    /\ MeshCellSize(globalmesh) = <<last.cell[3], last.cell[2], last.cell[1]>>
    /\ WorldSize = [i \in 1 .. 3 |-> GridSize[i] * CellSize[i]]
    /\ <<Nx, Ny, Nz>> = last.grid

C8_Witness ==
  /\ last.op = "SetMesh"
  /\ fatal = ""
  /\ last.grid = <<2, 3, 4>>
  /\ last.cell = <<1, 2, 3>>
  /\ WorldSize = <<2, 6, 12>>

\* C9: a mesh-dependent accessor called before any SetMesh has succeeded ends
\* in the fatal 'need to set mesh first' error and returns nothing; called
\* after a SetMesh has succeeded it returns its value without an error.
C9_AccessorsNeedMesh ==
  last.op \in Accessors =>
    IF Solver = 0
    THEN fatal = MsgMesh /\ ~last.ok /\ last.ret = <<>>
    ELSE fatal = "" /\ last.ok /\ last.ret = AccessorValue(last.op)
         /\ last.ret # <<>>

C9_Witness ==
  /\ last.op = "Nx"
  /\ Solver = 0
  /\ gridsize # <<>>
  /\ fatal = MsgMesh

\* C10: whenever the uniaxial anisotropy kernel is invoked with a nonzero
\* Msat, the ku1_red it is given is Ku1(r) / Msat, with the Msat of that
\* moment, for every region r.
C10_Ku1RedCurrent ==
  (last.op = "B_uni" /\ Msat # 0) =>
    last.ev[Len(last.ev)].a =
      <<M>> \o [i \in 1 .. (2 * NRegions) |->
                  Div(Ku1[(i - 1) \div 2], Msat)[((i - 1) % 2) + 1]]


OncePerTick ==
  {"demag_.Exec", "cuda.Zero", "cuda.AddExchange", "cuda.AddDMI",
   "cuda.AddUniaxialAnisotropy", "cuda.AddConst", "cuda.LLTorque",
   "cuda.AddZhangLiTorque"}

\* C11 as stated: in every torque evaluation the demagnetizing kernel (when
\* enabled), the exchange kernel, the anisotropy kernel, the uniform
\* external-field add and the Landau-Lifshitz transform each run exactly
\* once, and the DMI and spin-transfer kernels at most once.
C11_EachExactlyOnce ==
  last.op = "torqueFn" =>
    /\ Count(last.ev, "demag_.Exec") = B2N(EnableDemag)
    /\ Count(last.ev, "cuda.AddExchange") = 1
    /\ Count(last.ev, "cuda.AddUniaxialAnisotropy") = 1
    /\ Count(last.ev, "cuda.AddConst") = 1
    /\ Count(last.ev, "cuda.LLTorque") = 1
    /\ Count(last.ev, "cuda.AddDMI") <= 1
    /\ Count(last.ev, "cuda.AddZhangLiTorque") <= 1

\* C11 amended: in one torque evaluation no field contribution is computed twice; in
\* an evaluation that returns, the demagnetizing kernel (when enabled), the
\* exchange kernel, the anisotropy kernel, the uniform external-field add
\* and the Landau-Lifshitz transform have each run exactly once, each
\* registered mask has been added once, and the DMI and spin-transfer
\* kernels have run once or, when skipped, not at all.
C11_OncePerTick ==
  last.op = "torqueFn" =>
    /\ \A k \in OncePerTick : Count(last.ev, k) <= 1
    /\ fatal = "" =>
         /\ Count(last.ev, "demag_.Exec") = B2N(EnableDemag)
         /\ Count(last.ev, "cuda.Zero") = B2N(~EnableDemag)
         /\ Count(last.ev, "cuda.AddExchange") = 1
         /\ Count(last.ev, "cuda.AddUniaxialAnisotropy") = 1
         /\ Count(last.ev, "cuda.AddConst") = 1
         /\ Count(last.ev, "cuda.LLTorque") = 1
         /\ Count(last.ev, "cuda.Madd2") = Len(extFields)
         /\ Count(last.ev, "cuda.AddDMI") = B2N(DMI # 0)
         /\ Count(last.ev, "cuda.AddZhangLiTorque") = B2N(J # <<0, 0, 0>>)

C11_Witness ==
  /\ last.op = "torqueFn"
  /\ fatal = ""
  /\ EnableDemag
  /\ DMI # 0
  /\ J # <<0, 0, 0>>
  /\ Count(last.ev, "demag_.Exec") = 1
  /\ Count(last.ev, "cuda.AddDMI") = 1


\* C12: the registry is empty until initialize has run and from then on
\* holds exactly the twelve names m, regions, mFFT, B_demag, B_exch,
\* exchangemask, B_dmi, B_uni, B_eff, lltorque, sttorque and torque, B_ext
\* not among them, whatever torque evaluations and AddExtField calls are
\* made.
C12_RegistryFixed ==
  /\ "B_ext" \notin Quants
  /\ Solver = 0 => Quants = {}
  /\ Solver # 0 =>
       Quants = {"m", "regions", "mFFT", "B_demag", "B_exch", "exchangemask",
                 "B_dmi", "B_uni", "B_eff", "lltorque", "sttorque", "torque"}

C12_Witness ==
  /\ last.op = "torqueFn"
  /\ fatal = ""
  /\ Len(extFields) = 2
  /\ Cardinality(Quants) = 12

ExtKinds == {"cuda.AddConst", "cuda.Madd2"}
IsExt(e) == e.k \in ExtKinds

\* C14 as stated: in every torque evaluation the external field added is the
\* uniform field and, for each registered field in the order of
\* registration, its mask as registered times its multiplier, each once.
C14_EveryTick ==
  last.op = "torqueFn" =>
    SelectSeq(last.ev, IsExt) =
      <<Ev("cuda.AddConst", <<B_ext[3], B_ext[2], B_ext[1]>>)>>
      \o [i \in 1 .. Len(gpu) |->
            Ev("cuda.Madd2", <<gpu[i], extFields[i].mul + Time>>)]

\* C14 amended: in a torque evaluation that returns, the external field added is the
\* uniform field once and then, for each field registered so far and in the
\* order of registration, the mask as it was when it was registered times its
\* multiplier at the current time, each once; every registration has its
\* copy and none is dropped.
C14_ExternalField ==
  /\ Len(extFields) = Len(gpu)
  /\ (last.op = "torqueFn" /\ fatal = "") =>
       SelectSeq(last.ev, IsExt) =
         <<Ev("cuda.AddConst", <<B_ext[3], B_ext[2], B_ext[1]>>)>>
         \o [i \in 1 .. Len(gpu) |->
               Ev("cuda.Madd2", <<gpu[i], extFields[i].mul + Time>>)]

C14_Witness ==
  /\ last.op = "torqueFn"
  /\ fatal = ""
  /\ itime = 2
  /\ Len(extFields) = 2
  /\ gpu[1] # gpu[2]
  /\ usermask # gpu[2]
  /\ B_ext # <<0, 0, 0>>


Positions(s, k) == {i \in 1 .. Len(s) : s[i].k = k}

\* C13: in Torque.set the Landau-Lifshitz transform runs only after
\* B_demag.set, B_exch.addTo, B_dmi.addTo, B_uni.addTo and the external
\* field's addTo have all been called, and the spin-transfer torque is added
\* only after the transform; what a call that returns leaves in dst is the
\* contributions of B_eff, then the transform, then (for a nonzero J) the
\* spin-transfer torque, which the transform therefore never covers.
C13_TransformThenSTT ==
  last.op = "torque" =>
    /\ \A p \in Positions(last.ev, "cuda.LLTorque") :
         \A k \in ContribKinds : \E i \in Positions(last.ev, k) : i < p
    /\ \A p \in Positions(last.ev, "sttorque.addTo") :
         \E i \in Positions(last.ev, "cuda.LLTorque") : i < p
    /\ fatal = "" =>
         Kinds(last.dst) =
           BeffKernels \o <<"cuda.LLTorque">>
           \o (IF J # <<0, 0, 0>> THEN <<"cuda.AddZhangLiTorque">> ELSE <<>>)

C13_Witness ==
  /\ last.op = "torque"
  /\ fatal = ""
  /\ J # <<0, 0, 0>>
  /\ DMI # 0
  /\ Len(extFields) > 0
  /\ Kinds(last.dst)[Len(last.dst)] = "cuda.AddZhangLiTorque"


\* C15: a torque evaluation (the step that advances the tick counter) leaves
\* the magnetization buffer, the simulation time, the mesh, the material
\* parameters, the region table and the registered external fields as they
\* were; of the simulation state it writes only the torque buffer, the tick
\* counter and the table.
C15_EvaluationReadOnly ==
  [][itime' # itime =>
       /\ M' = M /\ Time' = Time /\ regions' = regions
       /\ globalmesh' = globalmesh /\ gridsize' = gridsize
       /\ cellsize' = cellsize
       /\ Msat' = Msat /\ DMI' = DMI /\ J' = J /\ B_ext' = B_ext
       /\ EnableDemag' = EnableDemag /\ Ku1' = Ku1 /\ ku1_red' = ku1_red
       /\ extFields' = extFields /\ gpu' = gpu /\ usermask' = usermask
       /\ Quants' = Quants /\ Solver' = Solver /\ stepvars' = stepvars]_vars

C15_Witness ==
  /\ last.op = "torqueFn"
  /\ fatal = ""
  /\ itime = 2
  /\ Table.rows = 1
  /\ torquebuffer = last.dst
  /\ torquebuffer # ZeroField


\* C16: a torque evaluation, with cansave true or false, raises the tick
\* counter by exactly one, as its first step, before the table is armed or
\* anything is computed; no other operation changes the counter, so it never
\* decreases and no two evaluations have the same tick.
C16_TickMonotonic ==
  [][IF last'.op = "torqueFn"
     THEN /\ itime' = itime + 1
          /\ last'.ev[1].k = "itime++"
          /\ Count(last'.ev, "itime++") = 1
     ELSE itime' = itime]_vars

C16_Witness ==
  /\ last.op = "torqueFn"
  /\ ~last.cansave
  /\ itime = 2
  /\ fatal = MsgMsat


\* C17 as stated: with demagnetization disabled B_demag.set leaves the zero
\* field in dst without the kernel and without the sanity check; with it
\* enabled the sanity check runs first and then the kernel runs exactly once.
C17_EnabledRunsKernel ==
  last.op = "B_demag" =>
    IF EnableDemag
    THEN Kinds(last.ev) = <<"B_demag.set", "sanitycheck", "demag_.Exec">>
    ELSE /\ last.dst = ZeroField
         /\ Count(last.ev, "demag_.Exec") = 0
         /\ Count(last.ev, "sanitycheck") = 0

\* C17 amended: with demagnetization disabled B_demag.set returns with the
\* all-zero field in dst, whatever dst held and whatever Msat is, without
\* the kernel and without the sanity check; with it enabled the sanity check
\* runs first, and then for a nonzero Msat the kernel runs exactly once and
\* overwrites dst, while for Msat = 0 the call ends in the fatal error and
\* the kernel does not run.
C17_DemagSwitch ==
  last.op = "B_demag" =>
    IF EnableDemag
    THEN /\ Kinds(last.ev)[2] = "sanitycheck"
         /\ Count(last.ev, "sanitycheck") = 1
         /\ Count(last.ev, "cuda.Zero") = 0
         /\ IF Msat = 0
            THEN fatal = MsgMsat /\ Count(last.ev, "demag_.Exec") = 0
            ELSE /\ fatal = ""
                 /\ Kinds(last.ev) =
                      <<"B_demag.set", "sanitycheck", "demag_.Exec">>
                 /\ last.dst = <<Ev("demag_.Exec", <<M, Msat>>)>>
    ELSE /\ fatal = ""
         /\ last.dst = ZeroField
         /\ Kinds(last.ev) = <<"B_demag.set", "cuda.Zero">>

C17_Witness ==
  /\ last.op = "B_demag"
  /\ ~EnableDemag
  /\ Msat = 0
  /\ last.dst0 # ZeroField
  /\ last.dst = ZeroField
  /\ fatal = ""


LazyOps == {"setGridSize", "setCellSize"}

\* C19: when the mesh is set only through setGridSize and setCellSize, then
\* as long as one of the two has not been called the mesh is unset
\* (initialize has not run and the mesh accessors are fatal); a call of
\* either invokes SetMesh once if the other has been called before and not
\* at all otherwise, with the grid size and cell size supplied last, which
\* are the ones the mesh then has.
C19_LazySetMesh ==
  /\ (gridsize = <<>> \/ cellsize = <<>>) =>
       /\ ~checkMesh /\ Solver = 0 /\ Quants = {}
       /\ last.op \in Accessors => (~last.ok /\ fatal = MsgMesh)
  /\ (gridsize # <<>> /\ cellsize # <<>>) =>
       IF gridsize[1] <= 1
       THEN fatal = MsgMeshX
       ELSE /\ fatal = ""
            /\ GridSize = gridsize /\ CellSize = cellsize /\ Solver = 1
  /\ last.op \in LazyOps =>
       /\ last.calls = B2N(gridsize # <<>> /\ cellsize # <<>>)
       /\ last.calls = 1 => (last.grid = gridsize /\ last.cell = cellsize)

C19_Witness ==
  /\ last.op = "setCellSize"
  /\ last.calls = 1
  /\ fatal = ""
  /\ GridSize = <<2, 3, 4>>
  /\ CellSize = <<1, 2, 3>>


\* C20: a call of SetMesh with Nx <= 1, made directly or by a lazy setter,
\* ends in the fatal mesh-size error and has neither stored a mesh nor run
\* initialize: the mesh, the registry, the solver, the torque buffer and
\* the table are as before the call, so an unset mesh stays unset, an empty
\* registry stays empty and no solver is created.
C20_SmallNxRejected ==
  [][(last'.op \in MeshOps /\ last'.calls = 1 /\ last'.grid[1] <= 1) =>
       /\ fatal' = MsgMeshX
       /\ globalmesh' = globalmesh
       /\ Quants' = Quants
       /\ Solver' = Solver
       /\ torquebuffer' = torquebuffer
       /\ Table' = Table
       /\ ~checkMesh => (~checkMesh' /\ Quants' = {} /\ Solver' = 0)]_vars

C20_Witness ==
  /\ last.op = "SetMesh"
  /\ last.grid[1] <= 1
  /\ fatal = MsgMeshX
  /\ ~checkMesh
  /\ Quants = {}
  /\ Solver = 0


====
